---- MODULE Spec2Model ----
(***************************************************************************)
(* Channel multiplexer of message-rpc (src/src/channel.ts).                *)
(*                                                                         *)
(* A ChannelMultiplexer keeps two JavaScript Maps, pendingOpen and         *)
(* openChannels, over one underlying Channel.  Two transports are          *)
(* modelled: an external underlying channel whose inbound frames are       *)
(* arbitrary (specification Spec, one multiplexer "A"), and a ChannelPipe  *)
(* whose commit runs the peer's dispatch synchronously (specification      *)
(* SpecPipe, multiplexers "A" and "B").                                    *)
(*                                                                         *)
(* The buffers (src/src/array-buffer-message-buffer.ts) and the message    *)
(* encoder and decoder (src/src/message-encoder.ts) are modelled byte by   *)
(* byte: SpecCodec drives one write buffer and a read buffer over what it  *)
(* committed, SpecEncoder writes one value or RPC frame and parses it.     *)
(***************************************************************************)
EXTENDS Integers, Sequences, FiniteSets, TLC

VARIABLES
    transport,  \* "external" or "pipe": what underlyingChannel is
    mux,        \* peer -> state of its ChannelMultiplexer
    bufs,       \* write buffers handed out by getWriteBuffer(), not yet dropped
    out,        \* frames committed to the underlying channel(s) by the last operation
    thrown,     \* exception the last operation ended with, "none" if it returned
    lastOp,     \* the operation that produced the current state
    codec,      \* an ArrrayBufferWriteBuffer, what it committed, and a read buffer over it
    emitter     \* an Emitter, the subscriptions it handed out, and what the last fire called

vars == <<transport, mux, bufs, out, thrown, lastOp, codec, emitter>>

----------------------------------------------------------------------------
(* Bounds of the model *)

MaxChannels == 2    \* ForwardingChannel objects created per multiplexer
MaxPromises == 2    \* promises returned by open() of the multiplexer on an external channel
MaxPipeOpens == 1    \* promises returned by open() per multiplexer on a pipe
MaxMsgs == 3        \* payloads delivered to message listeners
MaxErrors == 1      \* error events fanned out to one channel object
MaxBufs == 1        \* write buffers alive at a time
MaxPayload == 2     \* distinct payload bytes a caller writes
MaxOpcode == 5      \* opcodes an inbound frame may carry (1..4 are known)
MaxInboundMsgs == 1  \* Data frames delivered from the external channel
MaxInbound == 1     \* distinct payloads of inbound Data frames on the external channel

Peers == {"A", "B"}
Ids == {"x", "y"}
Payloads == {<<>>} \cup {<<b>> : b \in 1..MaxPayload}

\* enum MessageTypes
Open == 1
Close == 2
AckOpen == 3
Data == 4

----------------------------------------------------------------------------
(* JavaScript Map: entries in insertion order *)

EmptyMap == <<>>

MapHas(m, k) == \E i \in 1..Len(m) : m[i].k = k

MapIndex(m, k) == CHOOSE i \in 1..Len(m) : m[i].k = k

\* Map.get: 0 stands for undefined
MapGet(m, k) == IF MapHas(m, k) THEN m[MapIndex(m, k)].v ELSE 0

\* Map.set keeps the position of an existing key
MapSet(m, k, v) ==
    IF MapHas(m, k)
    THEN [m EXCEPT ![MapIndex(m, k)] = [k |-> k, v |-> v]]
    ELSE Append(m, [k |-> k, v |-> v])

MapDelete(m, k) == SelectSeq(m, LAMBDA e : e.k # k)

MapKeys(m) == {m[i].k : i \in 1..Len(m)}

MapKeySeq(m) == [i \in 1..Len(m) |-> m[i].k]

----------------------------------------------------------------------------
(* Objects *)

\* new ForwardingChannel(...): the three emitters are recorded by what they fired
NewChannel(id) == [id |-> id, closed |-> 0, errors |-> 0, messages |-> <<>>]

\* new Promise(...): value 0 is "not settled", otherwise the channel it was resolved with
NewPromise(id) == [id |-> id, value |-> 0]

\* new ChannelMultiplexer(underlyingChannel)
NewMux == [pendingOpen |-> EmptyMap, openChannels |-> EmptyMap,
           channels |-> <<>>, promises |-> <<>>]

Frame(type, id, payload) == [type |-> type, id |-> id, payload |-> payload]

Peer(p) == IF p = "A" THEN "B" ELSE "A"

\* a promise settles once: later calls of its resolve function change nothing
Resolve(promises, r, channel) ==
    IF promises[r].value = 0 THEN [promises EXCEPT ![r].value = channel] ELSE promises

\* Emitter.fire on the three emitters of a channel object
FireClose(channels, h) == [channels EXCEPT ![h].closed = @ + 1]

FireError(channels, h) == [channels EXCEPT ![h].errors = @ + 1]

FireMessage(channels, h, payload) == [channels EXCEPT ![h].messages = Append(@, payload)]

----------------------------------------------------------------------------
(* ChannelMultiplexer: inbound dispatch.  m is the state of one multiplexer; *)
(* the result is [m |-> new state, thrown |-> exception or "none"].         *)

Returned(m) == [m |-> m, thrown |-> "none"]

Threw(m, e) == [m |-> m, thrown |-> e]

\* createChannel(id): the new object is the last of channels
createChannel(m, id) == [m EXCEPT !.channels = Append(@, NewChannel(id))]

\* handleAckOpen with the resolver called only when there is one
handleAckOpen_Guarded(m, id) ==
    LET resolve == MapGet(m.pendingOpen, id)
        m1 == createChannel(m, id)
        channel == Len(m1.channels)
        m2 == [m1 EXCEPT !.pendingOpen = MapDelete(@, id),
                         !.openChannels = MapSet(@, id, channel)]
    IN  IF resolve = 0
        THEN Returned(m2)
        ELSE Returned([m2 EXCEPT !.promises = Resolve(@, resolve, channel)])

\* case MessageTypes.AckOpen
handleAckOpen(m, id) ==
    LET resolve == MapGet(m.pendingOpen, id)
        m1 == createChannel(m, id)
        channel == Len(m1.channels)
        m2 == [m1 EXCEPT !.pendingOpen = MapDelete(@, id),
                         !.openChannels = MapSet(@, id, channel)]
    IN  IF resolve = 0
        THEN Threw(m2, "TypeError")     \* resolve!(channel) with resolve undefined
        ELSE Returned([m2 EXCEPT !.promises = Resolve(@, resolve, channel)])

\* case MessageTypes.Open
handleOpen(m, id) ==
    IF ~MapHas(m.openChannels, id)
    THEN LET m1 == createChannel(m, id)
             channel == Len(m1.channels)
             m2 == [m1 EXCEPT !.openChannels = MapSet(@, id, channel)]
             resolve == MapGet(m.pendingOpen, id)
         IN  IF resolve # 0
             THEN Returned([m2 EXCEPT !.promises = Resolve(@, resolve, channel)])
             ELSE Returned(m2)
    ELSE Returned(m)

\* handleCloseFrame without openChannels.delete(id)
handleCloseFrame_KeepEntry(m, id) ==
    LET channel == MapGet(m.openChannels, id)
    IN  IF channel # 0
        THEN Returned([m EXCEPT !.channels = FireClose(@, channel)])
        ELSE Returned(m)

\* case MessageTypes.Close
handleCloseFrame(m, id) ==
    LET channel == MapGet(m.openChannels, id)
    IN  IF channel # 0
        THEN Returned([m EXCEPT !.channels = FireClose(@, channel),
                                !.openChannels = MapDelete(@, id)])
        ELSE Returned(m)

\* handleData looking the channel up without its id: the first open channel
handleData_First(m, id, payload) ==
    IF m.openChannels # EmptyMap
    THEN Returned([m EXCEPT !.channels = FireMessage(@, m.openChannels[1].v, payload)])
    ELSE Returned(m)

\* case MessageTypes.Data
handleData(m, id, payload) ==
    LET channel == MapGet(m.openChannels, id)
    IN  IF channel # 0
        THEN Returned([m EXCEPT !.channels = FireMessage(@, channel, payload)])
        ELSE Returned(m)

\* handleMessage(buffer): a switch without default
handleMessage(m, frame) ==
    CASE frame.type = AckOpen -> handleAckOpen(m, frame.id)
      [] frame.type = Open -> handleOpen(m, frame.id)
      [] frame.type = Close -> handleCloseFrame(m, frame.id)
      [] frame.type = Data -> handleData(m, frame.id, frame.payload)
      [] OTHER -> Returned(m)

----------------------------------------------------------------------------
(* Operations that write to the underlying channel.  w is                  *)
(* [mux |-> peer -> multiplexer, out |-> frames committed, thrown |-> ...]. *)

Start == [mux |-> mux, out |-> <<>>, thrown |-> "none"]

\* underlyingChannel.getWriteBuffer()...commit(): a ChannelPipe end fires the
\* other end's onMessageEmitter inside commit, so the peer's handleMessage runs
\* (and may throw) before commit returns; an external channel takes the frame
commit(w, p, frame) ==
    IF transport = "pipe"
    THEN LET r == handleMessage(w.mux[Peer(p)], frame)
         IN  [mux |-> [w.mux EXCEPT ![Peer(p)] = r.m],
              out |-> Append(w.out, frame),
              thrown |-> r.thrown]
    ELSE [w EXCEPT !.out = Append(@, frame)]

\* closeChannel(id)
closeChannel(w, p, id) ==
    LET w1 == commit(w, p, Frame(Close, id, <<>>))
        m == w1.mux[p]
        channel == MapGet(m.openChannels, id)
    IN  IF w1.thrown # "none" THEN w1
        ELSE IF channel = 0
        THEN [w1 EXCEPT !.thrown = "TypeError"]   \* openChannels.get(id)! is undefined
        ELSE [w1 EXCEPT !.mux[p] = [m EXCEPT !.channels = FireClose(@, channel),
                                             !.openChannels = MapDelete(@, id)]]

\* open(id): the frame is committed before the resolver is registered
open(w, p, id) ==
    LET w1 == commit(w, p, Frame(Open, id, <<>>))
        m == w1.mux[p]
        m1 == [m EXCEPT !.promises = Append(@, NewPromise(id))]
        resolve == Len(m1.promises)
    IN  IF w1.thrown # "none" THEN w1
        ELSE [w1 EXCEPT !.mux[p] = [m1 EXCEPT !.pendingOpen = MapSet(@, id, resolve)]]

\* this.openChannels.forEach(channel => channel.close()): keys in insertion
\* order; an entry deleted before it is reached is not visited
RECURSIVE closeEach(_, _, _)
closeEach(w, p, keys) ==
    IF keys = <<>> \/ w.thrown # "none" THEN w
    ELSE IF ~MapHas(w.mux[p].openChannels, Head(keys))
    THEN closeEach(w, p, Tail(keys))
    ELSE closeEach(closeChannel(w, p, Head(keys)), p, Tail(keys))

\* handleClose without pendingOpen.clear()
handleClose_KeepPending(w, p) ==
    LET w2 == closeEach(w, p, MapKeySeq(w.mux[p].openChannels))
    IN  IF w2.thrown # "none" THEN w2
        ELSE [w2 EXCEPT !.mux[p].openChannels = EmptyMap]

\* handleClose()
handleClose(w, p) ==
    LET w1 == [w EXCEPT !.mux[p].pendingOpen = EmptyMap]
        w2 == closeEach(w1, p, MapKeySeq(w1.mux[p].openChannels))
    IN  IF w2.thrown # "none" THEN w2
        ELSE [w2 EXCEPT !.mux[p].openChannels = EmptyMap]

\* this.openChannels.forEach(channel => channel.onErrorEmitter.fire(error))
RECURSIVE errorEach(_, _)
errorEach(m, keys) ==
    IF keys = <<>> THEN m
    ELSE errorEach([m EXCEPT !.channels = FireError(@, MapGet(m.openChannels, Head(keys)))],
                   Tail(keys))

\* handleError reaching only the first open channel
handleError_FirstOnly(w, p) ==
    LET keys == MapKeySeq(w.mux[p].openChannels)
    IN  [w EXCEPT !.mux[p] = errorEach(@, IF keys = <<>> THEN keys ELSE <<Head(keys)>>)]

\* handleError(error)
handleError(w, p) ==
    [w EXCEPT !.mux[p] = errorEach(@, MapKeySeq(@.openChannels))]

----------------------------------------------------------------------------
(* Write buffers of a logical channel *)

\* createChannel's writeBufferSource: the underlying buffer after
\* writeByte(MessageTypes.Data) and writeString(id)
getWriteBuffer(p, id) == [owner |-> p, type |-> Data, id |-> id, payload |-> <<>>]

\* what the caller writes after the header
writeByte(buf, b) == [buf EXCEPT !.payload = Append(@, b)]

RemoveAt(s, i) == [j \in 1..(Len(s) - 1) |-> IF j < i THEN s[j] ELSE s[j + 1]]

----------------------------------------------------------------------------
(* ArrrayBufferWriteBuffer: a Uint8Array (buffer, its length is the         *)
(* capacity) and an offset.  A JavaScript number in [0, 2^32) is kept as    *)
(* two 16-bit halves [hi, lo]; an int32 is an integer.                      *)

Num(hi, lo) == [hi |-> hi, lo |-> lo]

\* ToInt32, applied by the operators & and >> to their left operand
ToInt32(n) ==
    IF n.hi >= 32768 THEN (n.hi - 65536) * 65536 + n.lo ELSE n.hi * 65536 + n.lo

\* the number that a non-negative int32 is
FromInt(k) == Num(k \div 65536, k % 65536)

\* new ArrrayBufferWriteBuffer(new Uint8Array(capacity))
NewWriteBuffer(capacity) == [buffer |-> [i \in 1..capacity |-> 0], offset |-> 0]

\* while (newLength < this.offset + value) newLength *= 2
RECURSIVE grow(_, _)
grow(newLength, needed) ==
    IF newLength < needed THEN grow(newLength * 2, needed) ELSE newLength

\* ensureCapacity(value): newBuffer.set(this.buffer) keeps the old bytes
ensureCapacity(wb, value) ==
    LET newLength == grow(Len(wb.buffer), wb.offset + value)
    IN  [wb EXCEPT !.buffer = [i \in 1..newLength |->
                                  IF i <= Len(wb.buffer) THEN wb.buffer[i] ELSE 0]]

\* bytes stored from the zero-based position at
setBytes(buffer, at, bytes) ==
    [i \in 1..Len(buffer) |->
        IF i > at /\ i <= at + Len(bytes) THEN bytes[i - at] ELSE buffer[i]]

\* writeByte(value): a Uint8Array element keeps value modulo 256
ArrayBuffer_writeByte(wb, value) ==
    LET w1 == ensureCapacity(wb, 1)
    IN  [w1 EXCEPT !.buffer = setBytes(@, w1.offset, <<value % 256>>),
                   !.offset = @ + 1]

\* writeLength(length) for an int32 length (every call after the first >> 7)
RECURSIVE writeLengthInt(_, _)
writeLengthInt(wb, length) ==
    IF length < 127
    THEN ArrayBuffer_writeByte(wb, length)
    ELSE writeLengthInt(ArrayBuffer_writeByte(wb, 128 + (length % 128)), length \div 128)

\* writeLength(length): length & 127 and length >> 7 work on ToInt32(length),
\* >> is the arithmetic shift
writeLength(wb, length) ==
    IF length.hi = 0 /\ length.lo < 127
    THEN ArrayBuffer_writeByte(wb, length.lo)
    ELSE writeLengthInt(ArrayBuffer_writeByte(wb, 128 + (length.lo % 128)),
                        ToInt32(length) \div 128)

\* DataView.setUint32: four bytes, big-endian
Uint32Bytes(n) == <<n.hi \div 256, n.hi % 256, n.lo \div 256, n.lo % 256>>

\* writeInt(value)
writeInt(wb, value) ==
    LET w1 == ensureCapacity(wb, 4)
    IN  [w1 EXCEPT !.buffer = setBytes(@, w1.offset, Uint32Bytes(value)),
                   !.offset = @ + 4]

\* DataView.setFloat64 of the numbers the model writes
Float64Bytes(value) ==
    CASE value = 0 -> <<0, 0, 0, 0, 0, 0, 0, 0>>
      [] value = 1 -> <<63, 240, 0, 0, 0, 0, 0, 0>>
      [] value = 2 -> <<64, 0, 0, 0, 0, 0, 0, 0>>

\* writeNumber(value)
writeNumber(wb, value) ==
    LET w1 == ensureCapacity(wb, 8)
    IN  [w1 EXCEPT !.buffer = setBytes(@, w1.offset, Float64Bytes(value)),
                   !.offset = @ + 8]

\* UTF-8 of one code unit outside the surrogates; a string is a sequence of them
Utf8(c) ==
    IF c < 128 THEN <<c>>
    ELSE IF c < 2048 THEN <<192 + (c \div 64), 128 + (c % 64)>>
    ELSE <<224 + (c \div 4096), 128 + ((c \div 64) % 64), 128 + (c % 64)>>

\* TextEncoder.encode(value)
RECURSIVE encodeString(_)
encodeString(value) ==
    IF value = <<>> THEN <<>> ELSE Utf8(Head(value)) \o encodeString(Tail(value))

\* TextEncoder.encodeInto(value, destination): whole characters while they fit
RECURSIVE encodeInto(_, _)
encodeInto(value, room) ==
    IF value = <<>> \/ Len(Utf8(Head(value))) > room THEN <<>>
    ELSE Utf8(Head(value)) \o encodeInto(Tail(value), room - Len(Utf8(Head(value))))

\* writeString(value): capacity is ensured for 4 * value.length bytes only;
\* subarray(offset + 4) is what is left of the buffer, possibly nothing;
\* setUint32 throws a RangeError when offset + 4 is beyond the buffer
writeString(wb, value) ==
    LET w1 == ensureCapacity(wb, 4 * Len(value))
        fits == w1.offset + 4 <= Len(w1.buffer)
        room == IF fits THEN Len(w1.buffer) - (w1.offset + 4) ELSE 0
        bytes == encodeInto(value, room)
        w2 == [w1 EXCEPT !.buffer = setBytes(@, w1.offset + 4, bytes)]
    IN  IF ~fits THEN Threw(w2, "RangeError")
        ELSE Returned([w2 EXCEPT !.buffer = setBytes(@, w2.offset, Uint32Bytes(FromInt(Len(bytes)))),
                                 !.offset = @ + 4 + Len(bytes)])

\* writeBytes(value)
writeBytes(wb, value) ==
    LET w1 == writeLength(wb, FromInt(Len(value)))
        w2 == ensureCapacity(w1, Len(value))
    IN  [w2 EXCEPT !.buffer = setBytes(@, w2.offset, value),
                   !.offset = @ + Len(value)]

\* getCurrentContents(): this.buffer.slice(0, this.offset)
getCurrentContents(wb) == SubSeq(wb.buffer, 1, wb.offset)

----------------------------------------------------------------------------
(* ArrayBufferReadBuffer: the bytes received and an offset.  A read         *)
(* returns [rb |-> the buffer after it, ret |-> value, thrown |-> ...].     *)

NewReadBuffer(bytes) == [buffer |-> bytes, offset |-> 0]

ReadReturned(rb, ret) == [rb |-> rb, ret |-> ret, thrown |-> "none"]

ReadThrew(rb) == [rb |-> rb, ret |-> <<>>, thrown |-> "RangeError"]

\* a DataView access of size bytes at the offset is inside the buffer
InView(rb, size) == rb.offset >= 0 /\ rb.offset + size <= Len(rb.buffer)

\* readByte(): this.offset++ is evaluated before getUint8 checks the index
readByte(rb) ==
    IF InView(rb, 1)
    THEN ReadReturned([rb EXCEPT !.offset = @ + 1], rb.buffer[rb.offset + 1])
    ELSE ReadThrew([rb EXCEPT !.offset = @ + 1])

\* 2^k
RECURSIVE Pow2(_)
Pow2(k) == IF k = 0 THEN 1 ELSE 2 * Pow2(k - 1)

\* v << shift for 0 <= v < 128: the shift count is taken modulo 32 and the
\* result is an int32
Shl(v, shift) ==
    LET s == shift % 32
    IN  IF s <= 24 THEN v * Pow2(s)
        ELSE LET kept == v % Pow2(32 - s)
             IN  IF kept >= Pow2(31 - s) THEN (kept - Pow2(32 - s)) * Pow2(s)
                 ELSE kept * Pow2(s)

\* the while loop of readLength
RECURSIVE readLengthLoop(_, _, _, _)
readLengthLoop(rb, shift, byte, value) ==
    IF byte > 127
    THEN LET r == readByte(rb)
         IN  IF r.thrown # "none" THEN r
             ELSE readLengthLoop(r.rb, shift + 7, r.ret,
                                 value + Shl(r.ret % 128, shift + 7))
    ELSE ReadReturned(rb, value)

\* readLength()
readLength(rb) ==
    LET r == readByte(rb)
    IN  IF r.thrown # "none" THEN r
        ELSE readLengthLoop(r.rb, 0, r.ret, Shl(r.ret % 128, 0))

\* DataView.getFloat64 of the eight bytes; other patterns stay as bytes
Float64Value(bytes) ==
    IF \E v \in 0..2 : Float64Bytes(v) = bytes
    THEN CHOOSE v \in 0..2 : Float64Bytes(v) = bytes
    ELSE bytes

\* readNumber()
readNumber(rb) ==
    IF InView(rb, 8)
    THEN ReadReturned([rb EXCEPT !.offset = @ + 8],
                      Float64Value(SubSeq(rb.buffer, rb.offset + 1, rb.offset + 8)))
    ELSE ReadThrew(rb)

\* DataView.getInt32: four bytes, big-endian, two's complement
Int32Value(b) ==
    (IF b[1] >= 128 THEN b[1] - 256 ELSE b[1]) * 16777216
        + b[2] * 65536 + b[3] * 256 + b[4]

\* readInt()
readInt(rb) ==
    IF InView(rb, 4)
    THEN ReadReturned([rb EXCEPT !.offset = @ + 4],
                      Int32Value(SubSeq(rb.buffer, rb.offset + 1, rb.offset + 4)))
    ELSE ReadThrew(rb)

\* an index argument of Uint8Array.slice: negative counts from the end, and
\* the result is clamped to the array
SliceIndex(i, length) ==
    IF i < 0 THEN (IF length + i < 0 THEN 0 ELSE length + i)
    ELSE IF i > length THEN length ELSE i

\* this.buffer.slice(start, end): never throws, shorter when the range is not there
slice(buffer, start, end) ==
    SubSeq(buffer, SliceIndex(start, Len(buffer)) + 1, SliceIndex(end, Len(buffer)))

IsContinuation(b, low, high) == b >= low /\ b <= high

\* how many of the bytes at the head are continuation bytes, at most need;
\* the first one must be within low..high
RECURSIVE Continuations(_, _, _, _)
Continuations(bytes, need, low, high) ==
    IF need = 0 \/ bytes = <<>> \/ ~IsContinuation(Head(bytes), low, high) THEN 0
    ELSE 1 + Continuations(Tail(bytes), need - 1, 128, 191)

\* new TextDecoder().decode(buf): UTF-8, an ill-formed or cut sequence
\* becomes U+FFFD
RECURSIVE decodeString(_)
decodeString(bytes) ==
    IF bytes = <<>> THEN <<>>
    ELSE LET b == Head(bytes)
             need == IF b < 128 THEN 0
                     ELSE IF b >= 194 /\ b <= 223 THEN 1
                     ELSE IF b >= 224 /\ b <= 239 THEN 2
                     ELSE IF b >= 240 /\ b <= 244 THEN 3
                     ELSE -1
             low == IF b = 224 THEN 160 ELSE IF b = 240 THEN 144 ELSE 128
             high == IF b = 237 THEN 159 ELSE IF b = 244 THEN 143 ELSE 191
             got == IF need <= 0 THEN 0 ELSE Continuations(Tail(bytes), need, low, high)
             rest == SubSeq(bytes, got + 2, Len(bytes))
             lead == IF need = 1 THEN b - 192 ELSE IF need = 2 THEN b - 224 ELSE b - 240
             point == IF need = 0 THEN b
                      ELSE IF need = 1 THEN lead * 64 + (bytes[2] - 128)
                      ELSE IF need = 2
                      THEN lead * 4096 + (bytes[2] - 128) * 64 + (bytes[3] - 128)
                      ELSE lead * 262144 + (bytes[2] - 128) * 4096
                               + (bytes[3] - 128) * 64 + (bytes[4] - 128)
         IN  IF need >= 0 /\ got = need
             THEN <<point>> \o decodeString(rest)
             ELSE <<65533>> \o decodeString(rest)

\* readString(): the length is what readInt returns; slice gives what is there
readString(rb) ==
    LET r == readInt(rb)
        len == r.ret
    IN  IF r.thrown # "none" THEN r
        ELSE ReadReturned([r.rb EXCEPT !.offset = @ + len],
                          decodeString(slice(r.rb.buffer, r.rb.offset, r.rb.offset + len)))

\* readBytes(): the length is what readLength returns
readBytes(rb) ==
    LET r == readLength(rb)
        length == r.ret
    IN  IF r.thrown # "none" THEN r
        ELSE ReadReturned([r.rb EXCEPT !.offset = @ + length],
                          slice(r.rb.buffer, r.rb.offset, r.rb.offset + length))

----------------------------------------------------------------------------
(* Values and their JSON text.  A JavaScript value is <<type, content>>:     *)
(* a string is its code units, an array its items, an object its own        *)
(* enumerable properties [k |-> key, val |-> value] in insertion order.     *)

Val(t, v) == <<t, v>>

null == Val("null", <<>>)

undefined == Val("undefined", <<>>)

true == Val("boolean", <<1>>)

false == Val("boolean", <<0>>)

Number(n) == Val("number", <<n>>)

Str(s) == Val("string", s)

Arr(items) == Val("array", items)

Prop(k, val) == [k |-> k, val |-> val]

Obj(props) == Val("object", props)

\* decimal digits of a non-negative integer
RECURSIVE Digits(_)
Digits(n) == IF n < 10 THEN <<48 + n>> ELSE Digits(n \div 10) \o <<48 + (n % 10)>>

\* a string between quotes: the quote and the backslash are escaped
RECURSIVE Escaped(_)
Escaped(s) ==
    IF s = <<>> THEN <<>>
    ELSE (IF Head(s) \in {34, 92} THEN <<92, Head(s)>> ELSE <<Head(s)>>) \o Escaped(Tail(s))

RECURSIVE JSON_stringify(_)
RECURSIVE stringifyItems(_)
RECURSIVE stringifyProperties(_, _)

\* the items of an array joined by commas; undefined is written as null
stringifyItems(items) ==
    IF items = <<>> THEN <<>>
    ELSE (IF Head(items) = undefined THEN <<110, 117, 108, 108>>
          ELSE JSON_stringify(Head(items)))
         \o (IF Len(items) > 1 THEN <<44>> ELSE <<>>) \o stringifyItems(Tail(items))

\* "key":value joined by commas; a property whose value is undefined is left out
stringifyProperties(props, first) ==
    IF props = <<>> THEN <<>>
    ELSE IF Head(props).val = undefined THEN stringifyProperties(Tail(props), first)
    ELSE (IF first THEN <<>> ELSE <<44>>)
         \o <<34>> \o Escaped(Head(props).k) \o <<34, 58>> \o JSON_stringify(Head(props).val)
         \o stringifyProperties(Tail(props), FALSE)

\* JSON.stringify(value) of a value other than undefined, as code units
JSON_stringify(value) ==
    CASE value[1] = "boolean" ->
            IF value[2] = <<1>> THEN <<116, 114, 117, 101>> ELSE <<102, 97, 108, 115, 101>>
      [] value[1] = "number" ->
            IF value[2][1] < 0 THEN <<45>> \o Digits(-value[2][1]) ELSE Digits(value[2][1])
      [] value[1] = "string" -> <<34>> \o Escaped(value[2]) \o <<34>>
      [] value[1] = "null" -> <<110, 117, 108, 108>>
      [] value[1] = "array" -> <<91>> \o stringifyItems(value[2]) \o <<93>>
      [] value[1] = "object" -> <<123>> \o stringifyProperties(value[2], TRUE) \o <<125>>
      [] value[1] = "Uint8Array" ->
            <<123>> \o stringifyProperties(
                           [i \in 1..Len(value[2]) |-> [k |-> Digits(i - 1),
                                                        val |-> <<"number", <<value[2][i]>> >>]],
                           TRUE) \o <<125>>
      [] OTHER -> <<123, 125>>       \* an Error, an ArrayBuffer: no enumerable property

\* the value of a run of decimal digits
RECURSIVE DigitsValue(_)
DigitsValue(text) ==
    IF text = <<>> THEN 0
    ELSE DigitsValue(SubSeq(text, 1, Len(text) - 1)) * 10 + (text[Len(text)] - 48)

IsDigits(text) ==
    /\ text # <<>>
    /\ \A i \in 1..Len(text) : text[i] >= 48 /\ text[i] <= 57
    /\ Len(text) > 1 => text[1] # 48

\* the characters between the quotes are a well-formed string body
RECURSIVE IsEscaped(_)
IsEscaped(body) ==
    IF body = <<>> THEN TRUE
    ELSE IF Head(body) = 92
    THEN Len(body) >= 2 /\ body[2] \in {34, 92} /\ IsEscaped(Tail(Tail(body)))
    ELSE Head(body) # 34 /\ Head(body) >= 32 /\ IsEscaped(Tail(body))

RECURSIVE Unescaped(_)
Unescaped(body) ==
    IF body = <<>> THEN <<>>
    ELSE IF Head(body) = 92 THEN <<body[2]>> \o Unescaped(Tail(Tail(body)))
    ELSE <<Head(body)>> \o Unescaped(Tail(body))

\* JSON.parse(text) of the literals, integers and strings; anything else the
\* model produces is not JSON
JSON_parse(text) ==
    LET body == SubSeq(text, 2, Len(text) - 1)
    IN  CASE text = <<116, 114, 117, 101>> -> [ret |-> true, thrown |-> "none"]
          [] text = <<102, 97, 108, 115, 101>> -> [ret |-> false, thrown |-> "none"]
          [] text = <<110, 117, 108, 108>> -> [ret |-> null, thrown |-> "none"]
          [] IsDigits(text) -> [ret |-> Number(DigitsValue(text)), thrown |-> "none"]
          [] Len(text) >= 2 /\ Head(text) = 45 /\ IsDigits(Tail(text)) ->
                [ret |-> Number(-DigitsValue(Tail(text))), thrown |-> "none"]
          [] Len(text) >= 2 /\ Head(text) = 34 /\ text[Len(text)] = 34 /\ IsEscaped(body) ->
                [ret |-> Str(Unescaped(body)), thrown |-> "none"]
          [] OTHER -> [ret |-> undefined, thrown |-> "SyntaxError"]

----------------------------------------------------------------------------
(* MessageEncoder: every operation takes the write buffer and returns       *)
(* [m |-> the buffer after it, thrown |-> exception or "none"].             *)

\* enum ObjectType
JSON == 0
ByteArray == 1
ObjectArray == 2
Undefined == 3
Object == 4

\* enum MessageType
Request == 1
Notification == 2
Reply == 3
ReplyErr == 4
Cancel == 5

\* an entry [tag, encoder] of this.encoders; an encoder is named by its kind:
\* the five of the constructor, and two a caller may register, "String"
\* ({is: v => typeof v === 'string', write: (buf, v) => buf.writeString(v)})
\* and "Every" ({is: v => true, write: () => {}})
Encoder(tag, kind) == [tag |-> tag, kind |-> kind]

\* new MessageEncoder(): this.encoders after the constructor
BuiltinEncoders ==
    <<Encoder(JSON, "JSON"), Encoder(Object, "Object"), Encoder(Undefined, "Undefined"),
      Encoder(ObjectArray, "ObjectArray"), Encoder(ByteArray, "ByteArray")>>

\* registerEncoder(tag, encoder): registeredTags holds the tags of encoders
registerEncoder(encoders, tag, kind) ==
    IF \E i \in 1..Len(encoders) : encoders[i].tag = tag
    THEN Threw(encoders, "Error")
    ELSE Returned(Append(encoders, Encoder(tag, kind)))

\* encoder.is(value); typeof null, of an array, of an Error and of a buffer
\* is 'object'
is(kind, value) ==
    CASE kind = "JSON" -> TRUE
      [] kind = "Object" ->
            value[1] \in {"object", "null", "array", "Error", "ArrayBuffer", "Uint8Array"}
      [] kind = "Undefined" -> value[1] = "undefined"
      [] kind = "ObjectArray" -> value[1] = "array"
      [] kind = "ByteArray" -> value[1] = "ArrayBuffer"
      [] kind = "String" -> value[1] = "string"
      [] kind = "Every" -> TRUE

\* the loop of writeTypedValue taken from the first entry: the first
\* accepting encoder in registration order
selectEncoder_First(encoders, value) ==
    IF \E i \in 1..Len(encoders) : is(encoders[i].kind, value)
    THEN CHOOSE i \in 1..Len(encoders) :
             /\ is(encoders[i].kind, value)
             /\ \A j \in 1..(i - 1) : ~is(encoders[j].kind, value)
    ELSE 0

\* for (i = this.encoders.length - 1; i >= 0; i--) if (this.encoders[i][1].is(value)):
\* the position of the encoder that writes the value, 0 when the loop ends
\* without one
selectEncoder(encoders, value) ==
    IF \E i \in 1..Len(encoders) : is(encoders[i].kind, value)
    THEN CHOOSE i \in 1..Len(encoders) :
             /\ is(encoders[i].kind, value)
             /\ \A j \in (i + 1)..Len(encoders) : ~is(encoders[j].kind, value)
    ELSE 0

\* Object.keys(object) with the values: own enumerable properties, the
\* indices of an array or a Uint8Array, none of an Error or an ArrayBuffer
OwnProperties(object) ==
    CASE object[1] = "object" -> object[2]
      [] object[1] = "array" ->
            [i \in 1..Len(object[2]) |-> Prop(Digits(i - 1), object[2][i])]
      [] object[1] = "Uint8Array" ->
            [i \in 1..Len(object[2]) |-> Prop(Digits(i - 1), Number(object[2][i]))]
      [] OTHER -> <<>>

RECURSIVE writeTypedValue(_, _, _)
RECURSIVE writeItems(_, _, _)
RECURSIVE writeProperties(_, _, _)
RECURSIVE write(_, _, _, _)

\* the loop of writeArray: this.writeTypedValue(buf, value[i])
writeItems(encoders, wb, items) ==
    IF items = <<>> THEN Returned(wb)
    ELSE LET r == writeTypedValue(encoders, wb, Head(items))
         IN  IF r.thrown # "none" THEN r ELSE writeItems(encoders, r.m, Tail(items))

\* writeArray(buf, value)
writeArray(encoders, wb, value) ==
    writeItems(encoders, writeInt(wb, FromInt(Len(value))), value)

\* the loop of the Object encoder: writeString(property), recursiveEncode(buf, value)
writeProperties(encoders, wb, props) ==
    IF props = <<>> THEN Returned(wb)
    ELSE LET r1 == writeString(wb, Head(props).k)
             r2 == writeTypedValue(encoders, r1.m, Head(props).val)
         IN  IF r1.thrown # "none" THEN r1
             ELSE IF r2.thrown # "none" THEN r2
             ELSE writeProperties(encoders, r2.m, Tail(props))

\* encoder.write(buf, value, recursiveEncode) of each kind; Object.keys(null)
\* throws a TypeError
write(kind, encoders, wb, value) ==
    CASE kind = "JSON" ->       \* JSON.stringify(undefined) is undefined, not a string
            IF value = undefined THEN Threw(wb, "TypeError")
            ELSE writeString(wb, JSON_stringify(value))
      [] kind = "Object" ->
            IF value = null THEN Threw(wb, "TypeError")
            ELSE writeProperties(encoders,
                                 writeInt(wb, FromInt(Len(OwnProperties(value)))),
                                 OwnProperties(value))
      [] kind = "Undefined" -> Returned(wb)
      [] kind = "ObjectArray" -> writeArray(encoders, wb, value[2])
      [] kind = "ByteArray" -> Returned(writeBytes(wb, value[2]))
      [] kind = "String" -> writeString(wb, value[2])
      [] kind = "Every" -> Returned(wb)

\* writeTypedValue(buf, value): the encoders are asked last registered
\* first; the tag of the one that accepts is written, then it writes
writeTypedValue(encoders, wb, value) ==
    IF selectEncoder(encoders, value) = 0 THEN Returned(wb)
    ELSE write(encoders[selectEncoder(encoders, value)].kind, encoders,
               writeInt(wb, FromInt(encoders[selectEncoder(encoders, value)].tag)),
               value)

\* the frame header: writeByte(type); writeInt(requestId)
writeHeader(wb, type, requestId) == writeInt(ArrayBuffer_writeByte(wb, type), requestId)

\* cancel(buf, requestId)
cancel(wb, requestId) == Returned(writeHeader(wb, Cancel, requestId))

\* writeString(method); this.writeArray(buf, args)
writeCall(encoders, wb, method, args) ==
    LET r == writeString(wb, method)
    IN  IF r.thrown # "none" THEN r ELSE writeArray(encoders, r.m, args)

\* notification(buf, requestId, method, args)
notification(encoders, wb, requestId, method, args) ==
    writeCall(encoders, writeHeader(wb, Notification, requestId), method, args)

\* request(buf, requestId, method, args)
request(encoders, wb, requestId, method, args) ==
    writeCall(encoders, writeHeader(wb, Request, requestId), method, args)

\* replyOK(buf, requestId, res)
replyOK(encoders, wb, requestId, res) ==
    writeTypedValue(encoders, writeHeader(wb, Reply, requestId), res)

\* replyErr(buf, requestId, err)
replyErr(encoders, wb, requestId, err) ==
    writeTypedValue(encoders, writeHeader(wb, ReplyErr, requestId), err)

----------------------------------------------------------------------------
(* MessageDecoder: every operation takes the read buffer and returns        *)
(* [rb |-> the buffer after it, ret |-> value, thrown |-> ...].             *)

Failed(r, error) == [rb |-> r.rb, ret |-> undefined, thrown |-> error]

\* result[key] = value: a key that is there keeps its place
SetProperty(props, key, value) ==
    IF \E i \in 1..Len(props) : props[i].k = key
    THEN [i \in 1..Len(props) |-> IF props[i].k = key THEN Prop(key, value) ELSE props[i]]
    ELSE Append(props, Prop(key, value))

\* what follows a call that may throw: the exception passes through
Bind(r, F(_)) == IF r.thrown # "none" THEN r ELSE F(r)

RECURSIVE readTypedValue(_)
RECURSIVE readItems(_, _, _)
RECURSIVE readProperties(_, _, _)

\* the loop of readArray: result[i] = this.readTypedValue(buf)
readItems(rb, length, result) ==
    IF Len(result) >= length THEN ReadReturned(rb, Arr(result))
    ELSE Bind(readTypedValue(rb), LAMBDA r : readItems(r.rb, length, Append(result, r.ret)))

\* readArray(buf): new Array(length) throws a RangeError for a negative length
readArray(rb) ==
    Bind(readInt(rb), LAMBDA r :
        IF r.ret < 0 THEN Failed(r, "RangeError") ELSE readItems(r.rb, r.ret, <<>>))

\* the loop of the Object decoder
readProperties(rb, propertyCount, result) ==
    IF propertyCount <= 0 THEN ReadReturned(rb, Obj(result))
    ELSE Bind(readString(rb), LAMBDA key :
         Bind(readTypedValue(key.rb), LAMBDA value :
              readProperties(value.rb, propertyCount - 1,
                             SetProperty(result, key.ret, value.ret))))

\* return JSON.parse(json), which throws a SyntaxError on other text
ParsedJSON(s, json) ==
    IF json.thrown # "none" THEN Failed(s, json.thrown) ELSE ReadReturned(s.rb, json.ret)

\* readTypedValue(buf): the decoder registered for the tag reads the value
readTypedValue(rb) ==
    Bind(readInt(rb), LAMBDA r :
        CASE r.ret = JSON ->
                Bind(readString(r.rb), LAMBDA s : ParsedJSON(s, JSON_parse(s.ret)))
          [] r.ret = ByteArray ->
                Bind(readBytes(r.rb), LAMBDA b : ReadReturned(b.rb, Val("Uint8Array", b.ret)))
          [] r.ret = ObjectArray -> readArray(r.rb)
          [] r.ret = Undefined -> ReadReturned(r.rb, undefined)
          [] r.ret = Object ->
                Bind(readInt(r.rb), LAMBDA c : readProperties(c.rb, c.ret, <<>>))
          [] OTHER -> Failed(r, "Error"))

\* "$isError", "name", "message", "stack" and "Error" as code units
Key_isError == <<36, 105, 115, 69, 114, 114, 111, 114>>
Key_name == <<110, 97, 109, 101>>
Key_message == <<109, 101, 115, 115, 97, 103, 101>>
Key_stack == <<115, 116, 97, 99, 107>>
Text_Error == <<69, 114, 114, 111, 114>>

\* value[key] of an object, undefined when the key is not there
Get(value, key) ==
    IF value[1] = "object" /\ \E i \in 1..Len(value[2]) : value[2][i].k = key
    THEN value[2][CHOOSE i \in 1..Len(value[2]) : value[2][i].k = key].val
    ELSE undefined

\* the value is truthy
Truthy(value) ==
    value \notin {undefined, null, false, Number(0), Str(<<>>)}

\* new Error(): name "Error", message "", and a stack the engine makes up;
\* the three assignments err.x = err.x that follow change nothing
NewError == Val("Error", <<Prop(Key_name, Str(Text_Error)),
                           Prop(Key_message, Str(<<>>)),
                           Prop(Key_stack, Val("engine", <<>>))>>)

\* a message with the fields of its variant
Message(type, id, fields) == [type |-> type, id |-> id, fields |-> fields]

\* args.map(arg => arg === null ? undefined : arg)
NullToUndefined(args) ==
    [i \in 1..Len(args) |-> IF args[i] = null THEN undefined ELSE args[i]]

\* parseCancel(msg)
parseCancel(rb) ==
    Bind(readInt(rb), LAMBDA callId :
        ReadReturned(callId.rb, Message(Cancel, callId.ret, <<>>)))

\* parseRequest(msg) and parseNotification(msg), which differ in the type only
parseCall(rb, type) ==
    Bind(readInt(rb), LAMBDA callId :
    Bind(readString(callId.rb), LAMBDA method :
    Bind(readArray(method.rb), LAMBDA args :
        ReadReturned(args.rb,
            Message(type, callId.ret,
                    <<Prop("method", Str(method.ret)),
                      Prop("args", Arr(NullToUndefined(args.ret[2])))>>)))))

\* parseReply(msg)
parseReply(rb) ==
    Bind(readInt(rb), LAMBDA callId :
    Bind(readTypedValue(callId.rb), LAMBDA value :
        ReadReturned(value.rb, Message(Reply, callId.ret, <<Prop("res", value.ret)>>))))

\* if (err && err.$isError) err = new Error()
RevivedError(err) ==
    IF Truthy(err) /\ Truthy(Get(err, Key_isError)) THEN NewError ELSE err

\* parseReplyErr(msg)
parseReplyErr(rb) ==
    Bind(readInt(rb), LAMBDA callId :
    Bind(readTypedValue(callId.rb), LAMBDA value :
        ReadReturned(value.rb,
            Message(ReplyErr, callId.ret, <<Prop("err", RevivedError(value.ret))>>))))

\* parse(buf): the catch block logs and rethrows
parse(rb) ==
    Bind(readByte(rb), LAMBDA msgType :
        CASE msgType.ret = Request -> parseCall(msgType.rb, Request)
          [] msgType.ret = Notification -> parseCall(msgType.rb, Notification)
          [] msgType.ret = Reply -> parseReply(msgType.rb)
          [] msgType.ret = ReplyErr -> parseReplyErr(msgType.rb)
          [] msgType.ret = Cancel -> parseCancel(msgType.rb)
          [] OTHER -> Failed(msgType, "Error"))

----------------------------------------------------------------------------
(* Emitter: the listeners array, and the Disposable of every subscription   *)
(* with the position its closure captured                                   *)

\* new Emitter(); invoked is what the last fire called, in order
NoEmitter == [listeners |-> <<>>, subs |-> <<>>, invoked |-> <<>>]

\* Array.prototype.splice(start, deleteCount) with 0 <= start and
\* 0 <= deleteCount: the array that is left
splice(array, start, deleteCount) ==
    SubSeq(array, 1, IF start > Len(array) THEN Len(array) ELSE start)
        \o SubSeq(array, start + deleteCount + 1, Len(array))

\* event(listener): push, then position = this.listeners.length
event(e, listener) ==
    [e EXCEPT !.listeners = Append(@, listener),
              !.subs = Append(@, [listener |-> listener,
                                  position |-> Len(e.listeners) + 1,
                                  disposed |-> FALSE])]

\* dispose(): this.listeners.splice(position, 1)
dispose(e, s) ==
    [e EXCEPT !.listeners = splice(@, e.subs[s].position, 1),
              !.subs[s].disposed = TRUE]

\* fire(value): this.listeners.forEach(l => l(value))
fire(e) == [e EXCEPT !.invoked = e.listeners]

----------------------------------------------------------------------------
(* State space *)

RECURSIVE Delivered(_)
Delivered(channels) ==
    IF channels = <<>> THEN 0
    ELSE Len(Head(channels).messages) + Delivered(Tail(channels))

\* a bound stops growth beyond it, nothing else
Bounded(new, old, max) == new <= (IF old > max THEN old ELSE max)

WithinBounds(mx) ==
    /\ Bounded(Delivered(mx["A"].channels) + Delivered(mx["B"].channels),
               Delivered(mux["A"].channels) + Delivered(mux["B"].channels),
               IF transport = "pipe" THEN MaxMsgs ELSE MaxInboundMsgs)
    /\ \A p \in Peers :
        /\ Bounded(Len(mx[p].channels), Len(mux[p].channels), MaxChannels)
        /\ Bounded(Len(mx[p].promises), Len(mux[p].promises),
                   IF transport = "pipe" THEN MaxPipeOpens ELSE MaxPromises)
        /\ \A h \in 1..Len(mx[p].channels) : mx[p].channels[h].errors <= MaxErrors

Op(op, p, id, h, payload) == [op |-> op, peer |-> p, id |-> id, h |-> h, payload |-> payload]

\* the multiplexer specifications use no stand-alone buffer
NoCodec == [wb |-> [buffer |-> <<>>, offset |-> 0], log |-> <<>>, published |-> <<>>,
            hasReader |-> FALSE, rb |-> [buffer |-> <<>>, offset |-> 0],
            reads |-> 0, ret |-> <<>>, encoders |-> BuiltinEncoders]

Commons(tr) ==
    /\ transport = tr
    /\ mux = [p \in Peers |-> NewMux]
    /\ bufs = <<>>
    /\ out = <<>>
    /\ thrown = "none"
    /\ lastOp = Op("new", "A", "x", 0, <<>>)
    /\ codec = NoCodec
    /\ emitter = NoEmitter

\* new ChannelMultiplexer(underlyingChannel) over an external channel
Init == Commons("external")

\* const pipe = new ChannelPipe(); new ChannelMultiplexer(pipe.left) and (pipe.right)
InitPipe == Commons("pipe")

\* the two multiplexers of a pipe after A.open("x"), B.open("x"), A.open("y"),
\* B.open("y"): both ids are open on both peers
OpenedBoth ==
    LET w0 == [mux |-> [p \in Peers |-> NewMux], out |-> <<>>, thrown |-> "none"]
    IN  open(open(open(open(w0, "A", "x"), "B", "x"), "A", "y"), "B", "y").mux

InitData ==
    /\ transport = "pipe"
    /\ mux = OpenedBoth
    /\ bufs = <<>>
    /\ out = <<>>
    /\ thrown = "none"
    /\ lastOp = Op("open", "B", "y", 0, <<>>)
    /\ codec = NoCodec
    /\ emitter = NoEmitter

Finish(w, op) ==
    /\ WithinBounds(w.mux)
    /\ mux' = w.mux
    /\ out' = w.out
    /\ thrown' = w.thrown
    /\ lastOp' = op
    /\ UNCHANGED <<transport, codec, emitter>>

\* multiplexer.open(id)
CallOpen(p, id) ==
    /\ Finish(open(Start, p, id), Op("open", p, id, 0, <<>>))
    /\ UNCHANGED bufs

\* channel.close() on any channel object the multiplexer ever created
CallClose(p, h) ==
    /\ h \in 1..Len(mux[p].channels)
    /\ Finish(closeChannel(Start, p, mux[p].channels[h].id),
              Op("close", p, mux[p].channels[h].id, h, <<>>))
    /\ UNCHANGED bufs

\* the underlying channel fires onMessage with an inbound frame
Dispatch(frame) ==
    /\ transport = "external"
    /\ LET r == handleMessage(mux["A"], frame)
       IN  Finish([mux |-> [mux EXCEPT !["A"] = r.m], out |-> <<>>, thrown |-> r.thrown],
                  Op("dispatch", "A", frame.id, frame.type, frame.payload))
    /\ UNCHANGED bufs

\* the underlying channel fires onClose
TransportClose ==
    /\ transport = "external"
    /\ Finish(handleClose(Start, "A"), Op("handleClose", "A", "x", 0, <<>>))
    /\ UNCHANGED bufs

\* the underlying channel fires onError
TransportError ==
    /\ transport = "external"
    /\ Finish(handleError(Start, "A"), Op("handleError", "A", "x", 0, <<>>))
    /\ UNCHANGED bufs

\* pipe end of p .close(): its closeHander fires onCloseEmitter of the other
\* end, whose multiplexer runs handleClose
PipeClose(p) ==
    /\ transport = "pipe"
    /\ Finish(handleClose(Start, Peer(p)), Op("handleClose", Peer(p), "x", 0, <<>>))
    /\ UNCHANGED bufs

\* channel.getWriteBuffer() on any channel object
GetWriteBuffer(p, h) ==
    /\ transport = "pipe"
    /\ h \in 1..Len(mux[p].channels)
    /\ Len(bufs) < MaxBufs
    /\ bufs' = Append(bufs, getWriteBuffer(p, mux[p].channels[h].id))
    /\ Finish(Start, Op("buffer", "A", "x", 0, <<>>))

\* buffer.writeByte(b) by the caller
WriteByte(i, b) ==
    /\ i \in 1..Len(bufs)
    /\ writeByte(bufs[i], b) .payload \in Payloads
    /\ bufs' = [bufs EXCEPT ![i] = writeByte(@, b)]
    /\ Finish(Start, Op("buffer", "A", "x", 0, <<>>))

\* buffer.commit(): nothing marks the buffer spent
CommitBuffer(i) ==
    /\ i \in 1..Len(bufs)
    /\ Finish(commit(Start, bufs[i].owner, Frame(bufs[i].type, bufs[i].id, bufs[i].payload)),
              Op("commit", bufs[i].owner, bufs[i].id, 0, bufs[i].payload))
    /\ UNCHANGED bufs

\* the caller drops its reference to the buffer
DropBuffer(i) ==
    /\ i \in 1..Len(bufs)
    /\ bufs' = RemoveAt(bufs, i)
    /\ Finish(Start, Op("buffer", "A", "x", 0, <<>>))

Frames ==
    {Frame(t, id, <<>>) : t \in (1..MaxOpcode) \ {Data}, id \in Ids}
        \cup {Frame(Data, id, <<b>>) : id \in Ids, b \in 1..MaxInbound}

----------------------------------------------------------------------------
(* A stand-alone write buffer, the contents its onCommit listener got, and  *)
(* a read buffer over one of them                                           *)

MaxWrites == 2      \* write operations on the write buffer
MaxCommits == 2     \* commit() calls on the write buffer
MaxReads == 1       \* read operations on the read buffer

\* capacities of the Uint8Array the write buffer is constructed over
Capacities == {1, 4, 8}

\* arguments of writeLength: 2^31 is Num(32768, 0)
Lengths == {Num(0, 0), Num(0, 1), Num(0, 126), Num(0, 127), Num(0, 128), Num(0, 16384),
            Num(4096, 0), Num(16384, 0), Num(32768, 0), Num(65535, 65535)}

\* arguments of writeInt
Ints == {Num(0, 0), Num(0, 2), Num(1, 0), Num(32768, 0), Num(65535, 65535)}

\* arguments of writeByte
Bytes == {0, 255}

\* arguments of writeString: "", "a", "ab", and "e-acute euro"
Strings == {<<>>, <<97>>, <<97, 98>>, <<233, 8364>>}

\* arguments of writeBytes
ByteArrays == {<<>>, <<7>>, <<7, 8, 9>>}

\* arguments of writeNumber
Numbers == {0, 1}

AmpleCapacity == 256  \* a capacity no modelled buffer content exceeds

CodecOp(op, arg) == [op |-> op, arg |-> arg]

InitCodec ==
    /\ transport = "none"
    /\ mux = [p \in Peers |-> NewMux]
    /\ bufs = <<>>
    /\ out = <<>>
    /\ thrown = "none"
    /\ \E capacity \in Capacities :
           /\ lastOp = CodecOp("new", capacity)
           /\ codec = [NoCodec EXCEPT !.wb = NewWriteBuffer(capacity)]
    /\ emitter = NoEmitter

\* no read buffer has been constructed yet
NoReader == ~codec.hasReader

\* one write operation on the write buffer; r is what it returned or threw
Write(op, arg, r) ==
    /\ transport = "none"
    /\ NoReader
    /\ Len(codec.log) < MaxWrites
    /\ codec' = [codec EXCEPT !.wb = r.m, !.log = Append(@, CodecOp(op, arg))]
    /\ thrown' = r.thrown
    /\ lastOp' = CodecOp(op, arg)
    /\ UNCHANGED <<transport, mux, bufs, out, emitter>>

BufferWriteByte(value) == Write("writeByte", value, Returned(ArrayBuffer_writeByte(codec.wb, value)))

BufferWriteLength(length) == Write("writeLength", length, Returned(writeLength(codec.wb, length)))

BufferWriteInt(value) == Write("writeInt", value, Returned(writeInt(codec.wb, value)))

BufferWriteNumber(value) == Write("writeNumber", value, Returned(writeNumber(codec.wb, value)))

BufferWriteString(value) == Write("writeString", value, writeString(codec.wb, value))

BufferWriteBytes(value) == Write("writeBytes", value, Returned(writeBytes(codec.wb, value)))

\* commit(): the onCommit listener gets getCurrentContents()
BufferCommit ==
    /\ transport = "none"
    /\ NoReader
    /\ Len(codec.published) < MaxCommits
    /\ codec' = [codec EXCEPT !.published = Append(@, getCurrentContents(codec.wb))]
    /\ thrown' = "none"
    /\ lastOp' = CodecOp("commit", Len(codec.log))
    /\ UNCHANGED <<transport, mux, bufs, out, emitter>>

\* new ArrayBufferReadBuffer(bytes) over contents that were published
Receive(i) ==
    /\ transport = "none"
    /\ NoReader
    /\ i \in 1..Len(codec.published)
    /\ codec' = [codec EXCEPT !.hasReader = TRUE, !.rb = NewReadBuffer(codec.published[i])]
    /\ thrown' = "none"
    /\ lastOp' = CodecOp("receive", i)
    /\ UNCHANGED <<transport, mux, bufs, out, emitter>>

\* one read operation on the read buffer; r is what it returned or threw
Read(op, r) ==
    /\ transport = "none"
    /\ ~NoReader
    /\ codec.reads < MaxReads
    /\ codec' = [codec EXCEPT !.rb = r.rb, !.ret = r.ret, !.reads = @ + 1]
    /\ thrown' = r.thrown
    /\ lastOp' = CodecOp(op, codec.rb.offset)
    /\ UNCHANGED <<transport, mux, bufs, out, emitter>>

BufferReadByte == Read("readByte", readByte(codec.rb))

BufferReadLength == Read("readLength", readLength(codec.rb))

BufferReadInt == Read("readInt", readInt(codec.rb))

BufferReadNumber == Read("readNumber", readNumber(codec.rb))

BufferReadString == Read("readString", readString(codec.rb))

BufferReadBytes == Read("readBytes", readBytes(codec.rb))

Next ==
    \/ \E id \in Ids : CallOpen("A", id)
    \/ \E h \in 1..MaxChannels : CallClose("A", h)
    \/ \E f \in Frames : Dispatch(f)
    \/ TransportClose
    \/ TransportError

Spec == Init /\ [][Next]_vars

\* the control frames: every opcode but Data
ControlFrames == {f \in Frames : f.type # Data}

\* the operations that read or write pendingOpen and openChannels
NextControl ==
    \/ \E id \in Ids : CallOpen("A", id)
    \/ \E h \in 1..MaxChannels : CallClose("A", h)
    \/ \E f \in ControlFrames : Dispatch(f)
    \/ TransportClose

SpecControl == Init /\ [][NextControl]_vars

\* opening, closing by frame, and errors of the underlying channel
NextError ==
    \/ \E id \in Ids : CallOpen("A", id)
    \/ \E f \in {g \in Frames : g.type \in {Open, Close}} : Dispatch(f)
    \/ TransportError

SpecError == Init /\ [][NextError]_vars

NextPipe ==
    \/ \E p \in Peers, id \in Ids : CallOpen(p, id)
    \/ \E p \in Peers, h \in 1..MaxChannels : CallClose(p, h)
    \/ \E p \in Peers : PipeClose(p)

SpecPipe == InitPipe /\ [][NextPipe]_vars

NextData ==
    \/ \E p \in Peers, h \in 1..MaxChannels : CallClose(p, h)
    \/ \E p \in Peers : PipeClose(p)
    \/ \E p \in Peers, h \in 1..MaxChannels : GetWriteBuffer(p, h)
    \/ \E i \in 1..MaxBufs, b \in 1..MaxPayload : WriteByte(i, b)
    \/ \E i \in 1..MaxBufs : CommitBuffer(i)
    \/ \E i \in 1..MaxBufs : DropBuffer(i)

SpecData == InitData /\ [][NextData]_vars

\* what the encoder is given: primitives, arrays and objects nesting them
Primitives == {null, true, false, Number(0), Number(12), Str(<<>>), Str(<<97>>), Str(<<34, 233>>)}

Scalars == {true, Number(12), Str(<<97>>)}

JsonValues ==
    Primitives
        \cup {Arr(<<>>), Obj(<<>>)}
        \cup {Arr(<<a>>) : a \in Primitives}
        \cup {Arr(<<a, b>>) : a, b \in Scalars}
        \cup {Arr(<<Arr(<<a>>), Obj(<<Prop(<<107>>, a)>>)>>) : a \in Scalars}
        \cup {Obj(<<Prop(<<107>>, a)>>) : a \in Primitives}
        \cup {Obj(<<Prop(<<107>>, a), Prop(<<108, 233>>, Arr(<<b>>))>>) : a, b \in Scalars}

\* call ids, method names, argument lists, results and errors of the frames
CallIds == {0, 7}

Methods == {<<>>, <<109>>}

ArgLists == {<<>>, <<Number(12)>>, <<Str(<<97>>), true>>, <<Arr(<<Number(0)>>), Obj(<<Prop(<<107>>, false)>>)>>}

Results == {true, Number(12), Str(<<97>>), Arr(<<Number(0)>>), Obj(<<Prop(<<107>>, false)>>)}

\* { $isError: true, name: "E", message: "m", stack: "s" }
SerializedError ==
    Obj(<<Prop(Key_isError, true), Prop(Key_name, Str(<<69>>)),
          Prop(Key_message, Str(<<109>>)), Prop(Key_stack, Str(<<115>>))>>)

Errors == {SerializedError, Str(<<97>>), Obj(<<Prop(<<107>>, Number(12))>>)}

InitEncoder ==
    /\ transport = "none"
    /\ mux = [p \in Peers |-> NewMux]
    /\ bufs = <<>>
    /\ out = <<>>
    /\ thrown = "none"
    /\ lastOp = CodecOp("new", AmpleCapacity)
    /\ codec = [NoCodec EXCEPT !.wb = NewWriteBuffer(AmpleCapacity)]
    /\ emitter = NoEmitter

\* one value or frame written by the encoder into a buffer nothing was written to
Encode(op, arg, r) == codec.log = <<>> /\ Write(op, arg, r)

\* encoder.writeTypedValue(buf, value)
WriteTypedValue(value) == Encode("writeTypedValue", value, writeTypedValue(codec.encoders, codec.wb, value))

\* encoder.request(buf, requestId, method, args)
EncodeRequest(id, method, args) ==
    Encode("request",
          Message(Request, id, <<Prop("method", Str(method)), Prop("args", Arr(args))>>),
          request(codec.encoders, codec.wb, FromInt(id), method, args))

\* encoder.notification(buf, requestId, method, args)
EncodeNotification(id, method, args) ==
    Encode("notification",
          Message(Notification, id, <<Prop("method", Str(method)), Prop("args", Arr(args))>>),
          notification(codec.encoders, codec.wb, FromInt(id), method, args))

\* encoder.replyOK(buf, requestId, res)
EncodeReplyOK(id, res) ==
    Encode("replyOK", Message(Reply, id, <<Prop("res", res)>>),
          replyOK(codec.encoders, codec.wb, FromInt(id), res))

\* encoder.replyErr(buf, requestId, err)
EncodeReplyErr(id, err) ==
    Encode("replyErr", Message(ReplyErr, id, <<Prop("err", err)>>),
          replyErr(codec.encoders, codec.wb, FromInt(id), err))

\* encoder.cancel(buf, requestId)
EncodeCancel(id) ==
    Encode("cancel", Message(Cancel, id, <<>>), cancel(codec.wb, FromInt(id)))

\* decoder.readTypedValue(buf)
ReadTypedValue == Read("readTypedValue", readTypedValue(codec.rb))

\* decoder.parse(buf)
Parse == Read("parse", parse(codec.rb))

\* encoders a caller registers: tag 1 is taken by the ByteArray encoder
MaxRegistered == 2      \* encoders registered after the constructor

CallerTags == {ByteArray, 5, 6}

CallerKinds == {"String", "Every"}

\* what writeTypedValue is given: the JSON values, the absent value and a buffer
TypedValues == JsonValues \cup {undefined, Val("ArrayBuffer", <<1, 2>>)}

\* encoder.registerEncoder(tag, encoder)
RegisterEncoder(tag, kind) ==
    /\ transport = "none"
    /\ Len(codec.encoders) < Len(BuiltinEncoders) + MaxRegistered
    /\ codec' = [codec EXCEPT !.encoders = registerEncoder(@, tag, kind).m]
    /\ thrown' = registerEncoder(codec.encoders, tag, kind).thrown
    /\ lastOp' = CodecOp("registerEncoder", Encoder(tag, kind))
    /\ UNCHANGED <<transport, mux, bufs, out, emitter>>

\* an Emitter and its callers
MaxListeners == 3       \* subscriptions made on the emitter

Listeners == {"f", "g", "h"}

InitEmitter ==
    /\ transport = "none"
    /\ mux = [p \in Peers |-> NewMux]
    /\ bufs = <<>>
    /\ out = <<>>
    /\ thrown = "none"
    /\ lastOp = CodecOp("new", 0)
    /\ codec = NoCodec
    /\ emitter = NoEmitter

EmitterStep(e, op, arg) ==
    /\ transport = "none"
    /\ emitter' = e
    /\ thrown' = "none"
    /\ lastOp' = CodecOp(op, arg)
    /\ UNCHANGED <<transport, mux, bufs, out, codec>>

\* emitter.event(listener)
Subscribe(listener) ==
    /\ Len(emitter.subs) < MaxListeners
    /\ EmitterStep(event(emitter, listener), "event", listener)

\* subscription.dispose(), which a caller may repeat
Dispose(s) ==
    /\ s \in 1..Len(emitter.subs)
    /\ EmitterStep(dispose(emitter, s), "dispose", s)

\* emitter.fire(value)
Fire == EmitterStep(fire(emitter), "fire", 0)

NextCodec ==
    \/ \E value \in Bytes : BufferWriteByte(value)
    \/ \E length \in Lengths : BufferWriteLength(length)
    \/ \E value \in Ints : BufferWriteInt(value)
    \/ \E value \in Numbers : BufferWriteNumber(value)
    \/ \E value \in Strings : BufferWriteString(value)
    \/ \E value \in ByteArrays : BufferWriteBytes(value)
    \/ BufferCommit
    \/ \E i \in 1..MaxCommits : Receive(i)
    \/ BufferReadByte
    \/ BufferReadLength
    \/ BufferReadInt
    \/ BufferReadNumber
    \/ BufferReadString
    \/ BufferReadBytes

SpecCodec == InitCodec /\ [][NextCodec]_vars

NextEncoder ==
    \/ \E value \in JsonValues : WriteTypedValue(value)
    \/ \E id \in CallIds, method \in Methods, args \in ArgLists : EncodeRequest(id, method, args)
    \/ \E id \in CallIds, method \in Methods, args \in ArgLists : EncodeNotification(id, method, args)
    \/ \E id \in CallIds, res \in Results : EncodeReplyOK(id, res)
    \/ \E id \in CallIds, err \in Errors : EncodeReplyErr(id, err)
    \/ \E id \in CallIds : EncodeCancel(id)
    \/ BufferCommit
    \/ \E i \in 1..MaxCommits : Receive(i)
    \/ ReadTypedValue
    \/ Parse

SpecEncoder == InitEncoder /\ [][NextEncoder]_vars

\* an encoder, the encoders a caller registered on it, and one value written
NextRegistry ==
    \/ \E tag \in CallerTags, kind \in CallerKinds : RegisterEncoder(tag, kind)
    \/ \E value \in TypedValues : WriteTypedValue(value)

SpecRegistry == InitEncoder /\ [][NextRegistry]_vars

NextEmitter ==
    \/ \E listener \in Listeners : Subscribe(listener)
    \/ \E s \in 1..MaxListeners : Dispose(s)
    \/ Fire

SpecEmitter == InitEmitter /\ [][NextEmitter]_vars

----------------------------------------------------------------------------
(* Properties of the multiplexer *)

A == mux["A"]

PromisesFor(p, id) == {i \in 1..Len(mux[p].promises) : mux[p].promises[i].id = id}

Messages(mx) ==
    [p \in Peers |-> [h \in 1..Len(mx[p].channels) |-> mx[p].channels[h].messages]]

\* C1: once an operation has completed, no id is in both pendingOpen and
\* openChannels of a multiplexer.
C1_PendingAndOpenDisjoint ==
    \A p \in Peers : MapKeys(mux[p].pendingOpen) \cap MapKeys(mux[p].openChannels) = {}

\* C2: a channel object that is no longer the entry of openChannels for its id
\* has fired closed exactly once, and no channel object fires closed more than
\* once.
C2_ClosedExactlyOnce ==
    \A p \in Peers : \A h \in 1..Len(mux[p].channels) :
        LET c == mux[p].channels[h]
        IN  /\ c.closed <= 1
            /\ MapGet(mux[p].openChannels, c.id) # h => c.closed = 1

\* C3: when the underlying channel fires closed, handleClose leaves
\* pendingOpen and openChannels empty and every channel that was in
\* openChannels just before has fired closed exactly once.
C3_TransportCloseCascades ==
    [][lastOp'.op = "handleClose" =>
          /\ mux'["A"].pendingOpen = EmptyMap
          /\ mux'["A"].openChannels = EmptyMap
          /\ \A i \in 1..Len(A.openChannels) :
                 /\ A.channels[A.openChannels[i].v].closed = 0
                 /\ mux'["A"].channels[A.openChannels[i].v].closed = 1]_vars

\* handleClose has run with two channels open: both fired closed, both maps are empty
C3_Witness ==
    /\ lastOp.op = "handleClose"
    /\ thrown = "none"
    /\ Len(out) = 2
    /\ A.pendingOpen = EmptyMap /\ A.openChannels = EmptyMap
    /\ \E h1, h2 \in 1..Len(A.channels) :
           h1 # h2 /\ A.channels[h1].closed = 1 /\ A.channels[h2].closed = 1

\* C4: on a pipe, a Data buffer committed by p for an id open on both peers is
\* delivered once, at the end of what the peer's channel object for that id
\* has received, and to no other channel object; nothing but a commit
\* delivers a message.
C4_OrderedDelivery ==
    [][LET p == lastOp'.peer
           q == Peer(lastOp'.peer)
           id == lastOp'.id
       IN  /\ lastOp'.op # "commit" => Messages(mux') = Messages(mux)
           /\ (/\ lastOp'.op = "commit"
               /\ MapHas(mux[p].openChannels, id)
               /\ MapHas(mux[q].openChannels, id))
              => Messages(mux') =
                   [Messages(mux) EXCEPT ![q][MapGet(mux[q].openChannels, id)] =
                                             Append(@, lastOp'.payload)]]_vars

\* B's channel for "x" received <<1>> then <<2>>, with a delivery on "y" as well
C4_Witness ==
    /\ lastOp.op = "commit"
    /\ \E hx, hy \in 1..Len(mux["B"].channels) :
           /\ mux["B"].channels[hx].id = "x"
           /\ mux["B"].channels[hx].messages = << <<1>>, <<2>> >>
           /\ mux["B"].channels[hy].id = "y"
           /\ Len(mux["B"].channels[hy].messages) = 1

\* C5: on a pipe, when p has called open(id) and the peer has not called
\* open(id), the promise returned to p is completed (the pipe delivers inside
\* commit, so nothing is in flight once an operation has returned).
C5_PassivePeerCompletesOpen ==
    \A p \in Peers : \A i \in 1..Len(mux[p].promises) :
        PromisesFor(Peer(p), mux[p].promises[i].id) = {}
            => mux[p].promises[i].value # 0

\* C6: on a pipe, when both peers have called open(id) once (and each resolver
\* is either still registered or has completed its promise), both promises
\* are completed.
C6_SimultaneousOpenCompletesBoth ==
    \A id \in Ids :
        (\A p \in Peers :
            /\ Cardinality(PromisesFor(p, id)) = 1
            /\ \A i \in PromisesFor(p, id) :
                   mux[p].promises[i].value # 0 \/ MapGet(mux[p].pendingOpen, id) = i)
        => \A p \in Peers : \A i \in PromisesFor(p, id) : mux[p].promises[i].value # 0

\* C7: dispatching AckOpen(id) while pendingOpen has a resolver for id leaves
\* id in openChannels and not in pendingOpen, and the promise of that resolver
\* is completed with the channel object stored in openChannels under id.
C7_AckOpenCompletesWithStoredChannel ==
    [][(/\ lastOp'.op = "dispatch"
        /\ lastOp'.h = AckOpen
        /\ MapHas(A.pendingOpen, lastOp'.id))
       => /\ MapHas(mux'["A"].openChannels, lastOp'.id)
          /\ ~MapHas(mux'["A"].pendingOpen, lastOp'.id)
          /\ mux'["A"].promises[MapGet(A.pendingOpen, lastOp'.id)].value
                 = MapGet(mux'["A"].openChannels, lastOp'.id)]_vars

\* C8: on a pipe, close() on p's channel object for an id open on both peers
\* sends one Close frame with that id, fires closed once on p's object and on
\* the peer's object for id, and removes id from openChannels of both peers.
C8_CloseClosesBothEnds ==
    [][LET p == lastOp'.peer
           q == Peer(lastOp'.peer)
           id == lastOp'.id
           h == lastOp'.h
       IN  (/\ lastOp'.op = "close"
            /\ MapGet(mux[p].openChannels, id) = h
            /\ MapHas(mux[q].openChannels, id))
           => /\ thrown' = "none"
              /\ out' = <<Frame(Close, id, <<>>)>>
              /\ mux'[p].channels[h].closed = 1
              /\ ~MapHas(mux'[p].openChannels, id)
              /\ mux'[q].channels[MapGet(mux[q].openChannels, id)].closed = 1
              /\ ~MapHas(mux'[q].openChannels, id)]_vars

\* a close() returned normally and the id it closed has one closed channel
\* object on each peer and is open on neither
C8_Witness ==
    /\ lastOp.op = "close"
    /\ thrown = "none"
    /\ out = <<Frame(Close, lastOp.id, <<>>)>>
    /\ mux[lastOp.peer].channels[lastOp.h].closed = 1
    /\ \E hq \in 1..Len(mux[Peer(lastOp.peer)].channels) :
           /\ mux[Peer(lastOp.peer)].channels[hq].id = lastOp.id
           /\ mux[Peer(lastOp.peer)].channels[hq].closed = 1
    /\ \A p \in Peers : ~MapHas(mux[p].openChannels, lastOp.id)
    /\ \A p \in Peers : Len(mux[p].channels) = 1

\* C9: dispatching AckOpen(id) when pendingOpen has no resolver for id ends in
\* an exception thrown to the caller of the dispatch.
C9_AckOpenWithoutResolverThrows ==
    [][(/\ lastOp'.op = "dispatch"
        /\ lastOp'.h = AckOpen
        /\ ~MapHas(A.pendingOpen, lastOp'.id))
       => thrown' # "none"]_vars

\* an AckOpen dispatch ended in the TypeError of calling an undefined resolver
C9_Witness ==
    /\ lastOp.op = "dispatch"
    /\ lastOp.h = AckOpen
    /\ thrown = "TypeError"
    /\ ~MapHas(A.pendingOpen, lastOp.id)

\* C10: open(id) while id has a pending resolver or is in openChannels fails
\* with an error and leaves pendingOpen as it was.
C10_DuplicateOpenFails ==
    [][(/\ lastOp'.op = "open"
        /\ (MapHas(A.pendingOpen, lastOp'.id) \/ MapHas(A.openChannels, lastOp'.id)))
       => /\ thrown' # "none"
          /\ mux'["A"].pendingOpen = A.pendingOpen]_vars


\* the channel objects that are values of openChannels
OpenHandles(m) == {m.openChannels[i].v : i \in 1..Len(m.openChannels)}

\* C11: when the underlying channel fires an error, every channel object in
\* openChannels fires its error signal once, no other channel object fires
\* it, no channel fires closed, and pendingOpen and openChannels are unchanged.
C11_ErrorFansOutWithoutMutation ==
    [][lastOp'.op = "handleError" =>
          /\ thrown' = "none"
          /\ mux'["A"].pendingOpen = A.pendingOpen
          /\ mux'["A"].openChannels = A.openChannels
          /\ Len(mux'["A"].channels) = Len(A.channels)
          /\ \A h \in 1..Len(A.channels) :
                 /\ mux'["A"].channels[h].errors =
                        A.channels[h].errors + (IF h \in OpenHandles(A) THEN 1 ELSE 0)
                 /\ mux'["A"].channels[h].closed = A.channels[h].closed]_vars

\* handleError has run with two channels open and one pending: both open
\* channels carry the error, none is closed
C11_Witness ==
    /\ lastOp.op = "handleError"
    /\ Len(A.openChannels) = 2
    /\ Len(A.pendingOpen) >= 1
    /\ \A h \in OpenHandles(A) : A.channels[h].errors = 1 /\ A.channels[h].closed = 0

\* C12: dispatching a frame whose opcode is none of Open, Close, AckOpen, Data
\* ends in an exception thrown to the caller of the dispatch.
C12_UnknownOpcodeThrows ==
    [][(/\ lastOp'.op = "dispatch"
        /\ lastOp'.h \notin {Open, Close, AckOpen, Data})
       => thrown' # "none"]_vars

WriteOps == {"writeByte", "writeLength", "writeInt", "writeNumber", "writeString", "writeBytes"}

\* C13: once a write buffer has been committed, a further commit() or write
\* on it raises an error and publishes nothing more.
C13_CommitExactlyOnce ==
    [][(/\ codec.published # <<>>
        /\ lastOp'.op \in WriteOps \cup {"commit"})
       => /\ thrown' # "none"
          /\ codec'.published = codec.published]_vars

\* the write buffer holds exactly what one call op(n) wrote, and the read
\* buffer is at the start of those bytes
ReadsBack(op, n) ==
    /\ codec.log = <<CodecOp(op, n)>>
    /\ codec.hasReader
    /\ codec.rb = NewReadBuffer(getCurrentContents(codec.wb))

\* the int32 k is the number n
SameNumber(k, n) == k >= 0 /\ FromInt(k) = n

\* C14: readLength over the bytes written by writeLength(n) returns n and
\* consumes exactly those bytes, for every n in [0, 2^32).
C14_VarintRoundTrip ==
    [][\A n \in Lengths :
          (ReadsBack("writeLength", n) /\ lastOp'.op = "readLength")
          => /\ thrown' = "none"
             /\ SameNumber(codec'.ret, n)
             /\ codec'.rb.offset = Len(codec.rb.buffer)]_vars

\* ceil(bits_needed(n) / 7), at least 1
VarintSize(n) ==
    IF n.hi = 0 /\ n.lo < 128 THEN 1
    ELSE IF n.hi = 0 /\ n.lo < 16384 THEN 2
    ELSE IF n.hi < 32 THEN 3
    ELSE IF n.hi < 4096 THEN 4
    ELSE 5

\* C15: writeLength(n) on an empty buffer emits ceil(bits_needed(n)/7) bytes
\* (at least 1), all with the high bit set but the last, which has it clear.
C15_VarintSize ==
    \A n \in Lengths :
        codec.log = <<CodecOp("writeLength", n)>>
        => /\ codec.wb.offset = VarintSize(n)
           /\ \A i \in 1..codec.wb.offset :
                  (codec.wb.buffer[i] >= 128) <=> (i < codec.wb.offset)

\* C16: readInt over the four bytes written by writeInt(v) returns v, for
\* every v in [0, 2^32).
C16_IntRoundTrip ==
    [][\A v \in Ints :
          (ReadsBack("writeInt", v) /\ lastOp'.op = "readInt")
          => /\ thrown' = "none"
             /\ SameNumber(codec'.ret, v)
             /\ codec'.rb.offset = 4]_vars

\* bytes between the offset and the end of the read buffer
Remaining(rb) == Len(rb.buffer) - rb.offset

\* no byte from the offset on ends a varint
Unterminated(rb) ==
    \A i \in (rb.offset + 1)..Len(rb.buffer) : rb.buffer[i] >= 128

\* the read operation op needs bytes that the read buffer does not have
PastEnd(op, rb) ==
    CASE op = "readByte" -> Remaining(rb) < 1
      [] op = "readInt" -> Remaining(rb) < 4
      [] op = "readNumber" -> Remaining(rb) < 8
      [] op = "readLength" -> Unterminated(rb)
      [] op = "readString" ->
            \/ Remaining(rb) < 4
            \/ readInt(rb).ret > Remaining(readInt(rb).rb)
      [] op = "readBytes" ->
            \/ Unterminated(rb)
            \/ readLength(rb).ret > Remaining(readLength(rb).rb)
      [] OTHER -> FALSE

\* C17: a read operation that needs bytes beyond the end of the read buffer
\* raises an error.
C17_ReadPastEndThrows ==
    [][PastEnd(lastOp'.op, codec.rb) => thrown' # "none"]_vars

\* what the write operation op(arg) does to the write buffer wb
Apply(op, arg, wb) ==
    CASE op = "writeByte" -> Returned(ArrayBuffer_writeByte(wb, arg))
      [] op = "writeLength" -> Returned(writeLength(wb, arg))
      [] op = "writeInt" -> Returned(writeInt(wb, arg))
      [] op = "writeNumber" -> Returned(writeNumber(wb, arg))
      [] op = "writeString" -> writeString(wb, arg)
      [] op = "writeBytes" -> Returned(writeBytes(wb, arg))

\* all the bytes of op(arg): what it writes when nothing has to grow
AllBytes(op, arg) == getCurrentContents(Apply(op, arg, NewWriteBuffer(AmpleCapacity)).m)

\* C18: whatever the offset and the capacity, a write operation returns with
\* all its bytes stored after the old offset, the offset within the
\* capacity, and the bytes before the old offset unchanged.
C18_WritesGrowAndFit ==
    [][lastOp'.op \in WriteOps =>
          /\ thrown' = "none"
          /\ codec'.wb.offset <= Len(codec'.wb.buffer)
          /\ SubSeq(codec'.wb.buffer, 1, codec.wb.offset) = getCurrentContents(codec.wb)
          /\ SubSeq(codec'.wb.buffer, codec.wb.offset + 1, codec'.wb.offset)
                 = AllBytes(lastOp'.op, lastOp'.arg)]_vars

\* C19: writeTypedValue of a JSON-expressible value returns, and
\* readTypedValue over exactly the bytes it wrote returns an equal value.
C19_TypedValueRoundTrip ==
    [][/\ (lastOp'.op = "writeTypedValue" /\ codec.log = <<>>) => thrown' = "none"
       /\ \A v \in JsonValues :
              (ReadsBack("writeTypedValue", v) /\ lastOp'.op = "readTypedValue")
              => /\ thrown' = "none"
                 /\ codec'.ret = v]_vars

FrameOps == {"request", "notification", "replyOK", "replyErr", "cancel"}

\* C20: a frame written by request, notification, replyOK, replyErr or
\* cancel is written without an error, and parse over exactly its bytes
\* returns a message of the same type and id with equal
\* method/args/result/error.
C20_FrameRoundTrip ==
    [][/\ lastOp'.op \in FrameOps => thrown' = "none"
       /\ (/\ lastOp'.op = "parse"
           /\ Len(codec.log) = 1
           /\ codec.log[1].op \in FrameOps
           /\ ReadsBack(codec.log[1].op, codec.log[1].arg))
          => /\ thrown' = "none"
             /\ codec'.ret = codec.log[1].arg]_vars

\* err[key] of an object or of an Error, undefined when it is not there
Field(err, key) ==
    IF \E i \in 1..Len(err[2]) : err[2][i].k = key
    THEN err[2][CHOOSE i \in 1..Len(err[2]) : err[2][i].k = key].val
    ELSE undefined

\* the read buffer holds a ReplyErr frame and is at its start
AtReplyErr(rb) == rb.offset = 0 /\ Len(rb.buffer) >= 5 /\ rb.buffer[1] = ReplyErr

\* what readTypedValue decodes after the five header bytes of the frame
DecodedError(rb) == readTypedValue([rb EXCEPT !.offset = 5])

\* C21: when the value decoded from a ReplyErr frame has a truthy $isError,
\* parse returns a message whose err carries the name, message and stack of
\* the decoded record.
C21_RevivedErrorKeepsFields ==
    [][(/\ lastOp'.op = "parse"
        /\ codec.hasReader
        /\ AtReplyErr(codec.rb)
        /\ DecodedError(codec.rb).thrown = "none"
        /\ Truthy(DecodedError(codec.rb).ret)
        /\ Truthy(Get(DecodedError(codec.rb).ret, Key_isError)))
       => /\ thrown' = "none"
          /\ codec'.ret.type = ReplyErr
          /\ \A key \in {Key_name, Key_message, Key_stack} :
                 Field(codec'.ret.fields[1].val, key)
                     = Get(DecodedError(codec.rb).ret, key)]_vars

\* the encoders of the registry whose predicate accepts the value
Accepting(encoders, value) == {i \in 1..Len(encoders) : is(encoders[i].kind, value)}

\* the accepting encoder registered most recently
MostRecent(encoders, value) ==
    CHOOSE i \in Accepting(encoders, value) : \A j \in Accepting(encoders, value) : j <= i

\* the bytes the last operation added to the write buffer
Written == SubSeq(codec'.wb.buffer, codec.wb.offset + 1, codec'.wb.offset)

\* what encoder.write writes for the value into a buffer of its own
Payload(kind, encoders, value) ==
    getCurrentContents(write(kind, encoders, NewWriteBuffer(AmpleCapacity), value).m)

\* C22: writeTypedValue writes the tag of the accepting encoder registered
\* most recently as an int32 and then that encoder's payload: with the
\* encoders of the constructor an array gets tag 2, undefined tag 3 and a
\* record tag 4, and an accepting encoder registered by a caller wins over
\* the built-in ones.
C22_LastRegisteredEncoderWins ==
    [][lastOp'.op = "writeTypedValue" =>
          LET encoders == codec.encoders
              value == lastOp'.arg
              chosen == encoders[MostRecent(encoders, value)]
          IN  /\ Accepting(encoders, value) # {}
              /\ Written = Uint32Bytes(FromInt(chosen.tag))
                               \o Payload(chosen.kind, encoders, value)
              /\ encoders = BuiltinEncoders =>
                     /\ value[1] = "array" => SubSeq(Written, 1, 4) = <<0, 0, 0, 2>>
                     /\ value[1] = "undefined" => Written = <<0, 0, 0, 3>>
                     /\ value[1] = "object" => SubSeq(Written, 1, 4) = <<0, 0, 0, 4>>
              /\ \A i \in (Len(BuiltinEncoders) + 1)..Len(encoders) :
                     (/\ is(encoders[i].kind, value)
                      /\ \A j \in (i + 1)..Len(encoders) : ~is(encoders[j].kind, value))
                     => SubSeq(Written, 1, 4) = Uint32Bytes(FromInt(encoders[i].tag))]_vars

\* a caller registered the Every encoder under tag 6 and then the String
\* encoder under tag 5, and a string was written: the bytes are tag 5, then
\* the length and the code unit of the string
C22_Witness ==
    /\ lastOp = CodecOp("writeTypedValue", Str(<<97>>))
    /\ codec.encoders = Append(Append(BuiltinEncoders, Encoder(6, "Every")), Encoder(5, "String"))
    /\ getCurrentContents(codec.wb) = <<0, 0, 0, 5, 0, 0, 0, 1, 97>>

\* the channel objects the promises of open() were completed with
Handed(m) == {m.promises[i].value : i \in 1..Len(m.promises)} \ {0}

\* C23: a channel object that completed the promise of an open(id) and has
\* not fired closed is the object stored in openChannels under its id (the
\* part of "no live channel is orphaned" about channels handed to the caller
\* of open).
C23_NoLiveChannelOrphaned ==
    \A h \in Handed(A) :
        A.channels[h].closed = 0 => MapGet(A.openChannels, A.channels[h].id) = h

\* the listeners of the subscriptions that were not disposed, in
\* registration order
Subscribed(e) ==
    LET live == SelectSeq(e.subs, LAMBDA s : ~s.disposed)
    IN  [i \in 1..Len(live) |-> live[i].listener]

\* C24: a fire invokes, once each and in registration order, exactly the
\* listeners whose subscription has not been disposed.
C24_DisposeRemovesOwnListener ==
    [][lastOp'.op = "fire" => emitter'.invoked = Subscribed(emitter)]_vars

\* C25: a dispatch that ends in an exception leaves pendingOpen and
\* openChannels as they were before it.
C25_FailedDispatchLeavesState ==
    [][(lastOp'.op = "dispatch" /\ thrown' # "none")
       => /\ mux'["A"].pendingOpen = A.pendingOpen
          /\ mux'["A"].openChannels = A.openChannels]_vars

\* C26: close() on a channel object that has already fired closed fires
\* closed on no other channel object and leaves openChannels as it was.
C26_CloseActsOnItsOwnObject ==
    [][(/\ lastOp'.op = "close"
        /\ A.channels[lastOp'.h].closed > 0)
       => /\ mux'["A"].openChannels = A.openChannels
          /\ \A g \in 1..Len(A.channels) :
                 g # lastOp'.h => mux'["A"].channels[g].closed = A.channels[g].closed]_vars
====
